---- MODULE Spec2Model ----
(***************************************************************************)
(* Model of the command-line password manager in src/src/main.rs.          *)
(*                                                                         *)
(* The store file is a sequence of byte cells.  AES-256-GCM is modelled as *)
(* an ideal AEAD: the 16 tag cells bind the key, the nonce and the sealed  *)
(* plaintext, and decryption succeeds only on a ciphertext that is exactly *)
(* what encryption under the same key and nonce produces.  Argon2 is a     *)
(* deterministic function of (password, salt) whose output is never the    *)
(* bytes of a typed password.                                              *)
(***************************************************************************)
EXTENDS Integers, Sequences, FiniteSets, TLC

VARIABLES
    file,     \* the store file: [exists, data], data a sequence of byte cells
    origin,   \* history: which write produced the present content of the file
    procs,    \* per process: the command it runs, its locals and its last result
    started,  \* number of commands started so far
    damaged,  \* whether the environment has damaged the file
    cv        \* the codec specification's input, blob and result

vars == <<file, origin, procs, started, damaged, cv>>

-----------------------------------------------------------------------------
(* Bounds of the model *)

\* commands the two processes may start in one behaviour
MaxCmds == 2
\* distinct values the random nonce generator may return
NumNonces == 2
\* distinct values the random salt generator may return
NumSalts == 1
\* longest entry list drawn as an input of the codec specification
MaxEntries == 2

(* Program constants *)

\* Aes256Gcm key size in bytes
KeyLen == 32
\* nonce size in bytes, also the split point of the file
NonceLen == 12
\* AES-GCM authentication tag size in bytes
TagLen == 16
\* Argon2::default() output length in bytes
Argon2OutLen == 32
\* SaltString::generate draws this many random bytes
SaltLen == 16

Procs == {"p1", "p2"}

Rep(c, n) == [i \in 1..n |-> c]

-----------------------------------------------------------------------------
(* Master passwords as typed, and get_password *)

IsSpace(c) == c \in {9, 10, 13, 32}

RECURSIVE TrimStart(_)
TrimStart(s) ==
    IF s # <<>> /\ IsSpace(Head(s)) THEN TrimStart(Tail(s)) ELSE s

RECURSIVE TrimEnd(_)
TrimEnd(s) ==
    IF s # <<>> /\ IsSpace(s[Len(s)]) THEN TrimEnd(SubSeq(s, 1, Len(s) - 1)) ELSE s

\* password.trim().to_string() of the line read from stdin
get_password(line) == TrimEnd(TrimStart(line))

\* "hunter2"
ShortPw == <<104, 117, 110, 116, 101, 114, 50>>
\* two passwords of exactly 32 bytes
LongPwA == Rep(65, KeyLen)
LongPwB == Rep(66, KeyLen)

\* lines a user types at a prompt (read_line keeps the line terminator)
Lines == { ShortPw \o <<10>>,
           LongPwA \o <<10>>,
           <<32>> \o LongPwB \o <<13, 10>> }

Passwords == { get_password(l) : l \in Lines }

-----------------------------------------------------------------------------
(* Keys *)

NoKey == [kind |-> "none", pw |-> <<>>, salt |-> 0]

\* master_password.as_bytes() used as the cipher key
RawKey(pw) == [kind |-> "raw", pw |-> pw, salt |-> 0]

\* hash.hash.unwrap().as_bytes() of argon2.hash_password(pw, salt)
Argon2Hash(pw, salt) == [kind |-> "argon2", pw |-> pw, salt |-> salt]

KeyBytesLen(key) ==
    IF key.kind = "raw" THEN Len(key.pw)
    ELSE IF key.kind = "argon2" THEN Argon2OutLen
    ELSE 0

Salts == { 100 + k : k \in 1..NumSalts }
Nonces == { Rep(n, NonceLen) : n \in 1..NumNonces }

-----------------------------------------------------------------------------
(* Entries and bincode *)

Entry(n, u, p) == [name |-> n, username |-> u, password |-> p]

\* command-line arguments of `add`: two entries under the same name
Records == { Entry(<<103>>, <<97>>, <<112>>), Entry(<<103>>, <<98>>, <<113>>) }

\* fixed-width little-endian u64 of a length below 2^24 (bytes 4..8 are zero)
U64(n) == [i \in 1..8 |-> IF i <= 3 THEN (n \div (256 ^ (i - 1))) % 256 ELSE 0]

\* the u64 read back; -1 stands for a length of 2^24 or more, which no
\* buffer of the model can satisfy
FromU64(b) ==
    IF \E i \in 4..8 : b[i] # 0 THEN -1
    ELSE b[1] + 256 * b[2] + 65536 * b[3]

SerString(s) == U64(Len(s)) \o s

SerEntry(e) == SerString(e.name) \o SerString(e.username) \o SerString(e.password)

RECURSIVE SerEntries(_)
SerEntries(es) ==
    IF es = <<>> THEN <<>> ELSE SerEntry(Head(es)) \o SerEntries(Tail(es))

\* bincode::serialize(&PasswordStore { entries })
Serialize(es) == U64(Len(es)) \o SerEntries(es)

\* reads one length-prefixed string at the head of b: [ok, val, rest];
\* the bytes must be UTF-8 (single-byte characters in this model)
DeString(b) ==
    IF Len(b) < 8 THEN [ok |-> FALSE, val |-> <<>>, rest |-> <<>>]
    ELSE LET n == FromU64(SubSeq(b, 1, 8))
         IN IF n < 0 \/ Len(b) - 8 < n
               \/ \E i \in 9..(8 + n) : b[i] >= 128
            THEN [ok |-> FALSE, val |-> <<>>, rest |-> <<>>]
            ELSE [ok |-> TRUE, val |-> SubSeq(b, 9, 8 + n),
                  rest |-> SubSeq(b, 9 + n, Len(b))]

DeEntry(b) ==
    LET n == DeString(b)
        u == DeString(n.rest)
        p == DeString(u.rest)
    IN IF n.ok /\ u.ok /\ p.ok
       THEN [ok |-> TRUE, val |-> Entry(n.val, u.val, p.val), rest |-> p.rest]
       ELSE [ok |-> FALSE, val |-> Entry(<<>>, <<>>, <<>>), rest |-> <<>>]

RECURSIVE DeEntries(_, _)
DeEntries(k, b) ==
    IF k = 0 THEN [ok |-> TRUE, val |-> <<>>]
    ELSE LET e == DeEntry(b)
         IN IF ~e.ok THEN [ok |-> FALSE, val |-> <<>>]
            ELSE LET r == DeEntries(k - 1, e.rest)
                 IN IF r.ok THEN [ok |-> TRUE, val |-> <<e.val>> \o r.val]
                    ELSE [ok |-> FALSE, val |-> <<>>]

\* bincode::deserialize(&decrypted): trailing bytes are accepted; an entry
\* count above the buffer length runs out of input in any case
Deserialize(b) ==
    IF Len(b) < 8 THEN [ok |-> FALSE, val |-> <<>>]
    ELSE LET k == FromU64(SubSeq(b, 1, 8))
         IN IF k < 0 \/ k > Len(b) THEN [ok |-> FALSE, val |-> <<>>]
            ELSE DeEntries(k, SubSeq(b, 9, Len(b)))

-----------------------------------------------------------------------------
(* Byte cells of the file and the AEAD *)

NoMac == [key |-> NoKey, nonce |-> <<>>, pt |-> <<>>]

\* a byte stored in the clear
PlainCell(v) == [kind |-> "plain", v |-> v, mac |-> NoMac, flip |-> FALSE]

\* a plaintext byte under the key stream
EncCell(v) == [kind |-> "enc", v |-> v, mac |-> NoMac, flip |-> FALSE]

\* byte j of the authentication tag over (key, nonce, plaintext)
TagCell(j, key, nonce, pt) ==
    [kind |-> "tag", v |-> j,
     mac |-> [key |-> key, nonce |-> nonce, pt |-> pt], flip |-> FALSE]

\* a cell with one of its bits flipped
Flip(c) == [c EXCEPT !.flip = ~c.flip]

\* cipher.encrypt(nonce, plaintext): ciphertext followed by the tag
AeadEncrypt(key, nonce, pt) ==
    [i \in 1..Len(pt) |-> EncCell(pt[i])]
    \o [j \in 1..TagLen |-> TagCell(j, key, nonce, pt)]

AeadFail == [ok |-> FALSE, pt |-> <<>>]

\* cipher.decrypt(nonce, ciphertext): the plaintext, only when the tag verifies
AeadDecrypt(key, nonce, ct) ==
    IF Len(ct) < TagLen THEN AeadFail
    ELSE LET pt == [i \in 1..(Len(ct) - TagLen) |-> ct[i].v]
         IN IF ct = AeadEncrypt(key, nonce, pt)
            THEN [ok |-> TRUE, pt |-> pt]
            ELSE AeadFail

\* the value of the bytes handed to Nonce::from_slice
NonceValue(cells) ==
    [i \in 1..Len(cells) |->
        IF cells[i].kind = "plain" /\ ~cells[i].flip THEN cells[i].v ELSE -1]

NonceCells(nonce) == [i \in 1..Len(nonce) |-> PlainCell(nonce[i])]

-----------------------------------------------------------------------------
(* encrypt_store and the body of decrypt_store *)

Res(kind, entries) == [kind |-> kind, entries |-> entries]

\* the blob without its nonce: Ok(ciphertext)
FrameNoNonce(nonce, ciphertext) == ciphertext

\* [nonce.to_vec(), ciphertext].concat()
Frame(nonce, ciphertext) == NonceCells(nonce) \o ciphertext

\* encrypt_store with Nonce::default() in place of the generated bytes: every
\* blob is sealed under the all-zero nonce
encrypt_store_zero_nonce(entries, key, nonce) ==
    IF KeyBytesLen(key) # KeyLen
    THEN [ok |-> FALSE, data |-> <<>>]
    ELSE [ok |-> TRUE,
          data |-> Frame(Rep(0, NonceLen),
                         AeadEncrypt(key, Rep(0, NonceLen), Serialize(entries)))]

\* encrypt_store(store, key) with `nonce` the 12 bytes the generator returned
encrypt_store(entries, key, nonce) ==
    IF KeyBytesLen(key) # KeyLen
    THEN [ok |-> FALSE, data |-> <<>>]
    ELSE [ok |-> TRUE,
          data |-> Frame(nonce, AeadEncrypt(key, nonce, Serialize(entries)))]

\* decrypt_store with the decryption error swallowed (.unwrap_or_default()):
\* whatever decrypt returns goes on to the deserializer
DecryptBytesSwallow(data, key) ==
    IF Len(data) < NonceLen THEN Res("Panic", <<>>)
    ELSE IF KeyBytesLen(key) # KeyLen THEN Res("InvalidKeyLength", <<>>)
       ELSE LET nonce == NonceValue(SubSeq(data, 1, NonceLen))
                ciphertext == SubSeq(data, NonceLen + 1, Len(data))
                decrypted == AeadDecrypt(key, nonce, ciphertext)
                store == Deserialize(decrypted.pt)
            IN IF store.ok THEN Res("Ok", store.val)
               ELSE Res("Malformed", <<>>)

\* decrypt_store after the read: split, key setup, decrypt, deserialize
DecryptBytes(data, key) ==
    \* split_at(12) panics when the slice is shorter than 12 bytes
    IF Len(data) < NonceLen THEN Res("Panic", <<>>)
    ELSE IF KeyBytesLen(key) # KeyLen THEN Res("InvalidKeyLength", <<>>)
       ELSE LET nonce == NonceValue(SubSeq(data, 1, NonceLen))
                ciphertext == SubSeq(data, NonceLen + 1, Len(data))
                decrypted == AeadDecrypt(key, nonce, ciphertext)
            IN IF ~decrypted.ok THEN Res("DecryptFailed", <<>>)
               ELSE LET store == Deserialize(decrypted.pt)
                    IN IF store.ok THEN Res("Ok", store.val)
                       ELSE Res("Malformed", <<>>)

\* decrypt_store(store_path) with `line` typed at the prompt
decrypt_store(line, f) ==
    IF ~f.exists THEN Res("NotFound", <<>>)
    ELSE DecryptBytes(f.data, RawKey(get_password(line)))

-----------------------------------------------------------------------------
(* State *)

Absent == [exists |-> FALSE, data |-> <<>>]

NoEntry == Entry(<<>>, <<>>, <<>>)

\* by: "none" (no file), "env" (there before the program ran), "init", "add",
\* "partial" (created and not yet fully written), "tampered", "truncated";
\* key, pw, entries, salt: what the write sealed and with what;
\* fresh: the write found no file at the path
NoOrigin == [by |-> "none", key |-> NoKey, pw |-> <<>>, entries |-> <<>>,
             salt |-> 0, fresh |-> FALSE]

Origin(by, key, pw, entries, salt, fresh) ==
    [by |-> by, key |-> key, pw |-> pw, entries |-> entries, salt |-> salt,
     fresh |-> fresh]

Partial == [NoOrigin EXCEPT !.by = "partial"]

\* what a command found at the path: which write produced the content, and
\* whether that write was given the master password this command is given
Seen(pw) == [by |-> origin.by, match |-> origin.by # "none" /\ origin.pw = pw,
             fresh |-> origin.fresh]

NoSeen == [by |-> "none", match |-> FALSE, fresh |-> FALSE]

\* a store in the program's own format that the environment already holds:
\* an empty store keyed by a 32-byte master password
EnvFile == [exists |-> TRUE,
            data |-> encrypt_store(<<>>, RawKey(LongPwA), Rep(1, NonceLen)).data]

EnvOrigin == Origin("env", RawKey(LongPwA), LongPwA, <<>>, 0, FALSE)

IdleProc == [pc |-> "idle", op |-> "none", pw |-> <<>>, pw2 |-> <<>>,
             rec |-> NoEntry, store |-> <<>>, key |-> NoKey, salt |-> 0,
             nonce |-> <<>>,
             seen |-> NoSeen, dres |-> Res("none", <<>>), out |-> "none"]

CvOff == [phase |-> "off", entries |-> <<>>, key |-> NoKey, nonce |-> <<>>,
          blob |-> <<>>, plain |-> AeadFail, res |-> Res("none", <<>>)]

\* the path given with --store names no file, or a store written earlier
Init ==
    /\ \/ file = Absent /\ origin = NoOrigin
       \/ file = EnvFile /\ origin = EnvOrigin
    /\ procs = [p \in Procs |-> IdleProc]
    /\ started = 0
    /\ damaged = FALSE
    /\ cv = CvOff

\* the process's record when a command returns `out`
Finished(r, out) ==
    [r EXCEPT !.pc = "idle", !.out = out, !.store = <<>>, !.key = NoKey,
              !.salt = 0, !.nonce = <<>>]

\* the local encrypted_data of a process about to write: the blob that
\* encrypt_store returned for its store, key and nonce
EncryptedData(r) == encrypt_store(r.store, r.key, r.nonce).data

\* File::create inside fs::write: the file exists and is empty
Created == [exists |-> TRUE, data |-> <<>>]

\* write_all on a descriptor at offset 0: bytes another writer put beyond the
\* end of `data` since the file was created stay in place
Written(f, data) ==
    [exists |-> TRUE, data |-> data \o SubSeq(f.data, Len(data) + 1, Len(f.data))]


-----------------------------------------------------------------------------
(* init_store *)

\* lines 76-84 up to File::create inside fs::write: the file exists and is empty
InitCreate(p) ==
    /\ procs[p].pc = "idle"
    /\ started < MaxCmds
    /\ \E line \in Lines, salt \in Salts, nonce \in Nonces :
         LET master_password == get_password(line)
             hash == Argon2Hash(master_password, salt)
             encrypted_data == encrypt_store(<<>>, hash, nonce)
         IN IF encrypted_data.ok
            THEN /\ procs' = [procs EXCEPT ![p] =
                        [IdleProc EXCEPT !.pc = "init_write", !.op = "init",
                                         !.pw = master_password,
                                         !.key = hash, !.salt = salt,
                                         !.nonce = nonce,
                                         !.seen = Seen(master_password)]]
                 /\ file' = Created
                 /\ origin' = Partial
            ELSE /\ procs' = [procs EXCEPT ![p] =
                        [IdleProc EXCEPT !.op = "init", !.pw = master_password,
                                         !.seen = Seen(master_password),
                                         !.out = "InvalidKeyLength"]]
                 /\ UNCHANGED <<file, origin>>
    /\ started' = started + 1
    /\ UNCHANGED <<damaged, cv>>

\* fs::write's write_all, then lines 85-86
InitWrite(p) ==
    /\ procs[p].pc = "init_write"
    /\ file' = Written(file, EncryptedData(procs[p]))
    /\ origin' = IF file'.data = EncryptedData(procs[p])
                 THEN Origin("init", procs[p].key, procs[p].pw, <<>>, procs[p].salt,
                             procs[p].seen.by = "none")
                 ELSE Partial
    /\ procs' = [procs EXCEPT ![p] = Finished(@, "Ok")]
    /\ UNCHANGED <<started, damaged, cv>>

-----------------------------------------------------------------------------
(* decrypt_store called on its own (the Get and List commands open the store) *)

OpenStore(p) ==
    /\ procs[p].pc = "idle"
    /\ started < MaxCmds
    /\ \E line \in Lines :
         LET r == decrypt_store(line, file)
         IN procs' = [procs EXCEPT ![p] =
                [IdleProc EXCEPT !.op = "open", !.pw = get_password(line),
                                 !.seen = Seen(get_password(line)),
                                 !.dres = r, !.out = r.kind]]
    /\ started' = started + 1
    /\ UNCHANGED <<file, origin, damaged, cv>>

-----------------------------------------------------------------------------
(* add_entry *)

\* an add that replaces the entry already stored under the same name, and
\* appends only when there is none
push_replace(entries, rec) ==
    IF \E i \in 1..Len(entries) : entries[i].name = rec.name
    THEN [i \in 1..Len(entries) |->
            IF entries[i].name = rec.name THEN rec ELSE entries[i]]
    ELSE Append(entries, rec)

\* lines 93-97: store.entries.push(Entry { name, username, password })
push(entries, rec) == Append(entries, rec)

\* line 91 with the error dropped (decrypt_store(store_path).unwrap_or_default()):
\* a store that does not open is taken to be empty and the add goes on
AddOpenOrDefault(p) ==
    /\ procs[p].pc = "idle"
    /\ started < MaxCmds
    /\ \E line \in Lines, rec \in Records :
         LET r == decrypt_store(line, file)
             q == [IdleProc EXCEPT !.op = "add", !.pw = get_password(line),
                                   !.rec = rec, !.seen = Seen(get_password(line)),
                                   !.dres = r]
         IN procs' = [procs EXCEPT ![p] =
                [q EXCEPT !.pc = "add_opened", !.store = r.entries]]
    /\ started' = started + 1
    /\ UNCHANGED <<file, origin, damaged, cv>>

\* line 91: decrypt_store(store_path)?
AddOpen(p) ==
    /\ procs[p].pc = "idle"
    /\ started < MaxCmds
    /\ \E line \in Lines, rec \in Records :
         LET r == decrypt_store(line, file)
             q == [IdleProc EXCEPT !.op = "add", !.pw = get_password(line),
                                   !.rec = rec, !.seen = Seen(get_password(line)),
                                   !.dres = r]
         IN procs' = [procs EXCEPT ![p] =
                IF r.kind = "Ok"
                THEN [q EXCEPT !.pc = "add_opened", !.store = r.entries]
                ELSE [q EXCEPT !.out = r.kind]]
    /\ started' = started + 1
    /\ UNCHANGED <<file, origin, damaged, cv>>

\* lines 93-102 up to File::create inside fs::write
AddCreate(p) ==
    /\ procs[p].pc = "add_opened"
    /\ \E line \in Lines, nonce \in Nonces :
         LET entries == push(procs[p].store, procs[p].rec)
             master_password == get_password(line)
             encrypted_data == encrypt_store(entries, RawKey(master_password), nonce)
         IN IF encrypted_data.ok
            THEN /\ procs' = [procs EXCEPT ![p] =
                        [@ EXCEPT !.pc = "add_write", !.store = entries,
                                  !.pw2 = master_password,
                                  !.key = RawKey(master_password),
                                  !.nonce = nonce]]
                 /\ file' = Created
                 /\ origin' = Partial
            ELSE /\ procs' = [procs EXCEPT ![p] =
                        Finished([@ EXCEPT !.pw2 = master_password],
                                 "InvalidKeyLength")]
                 /\ UNCHANGED <<file, origin>>
    /\ UNCHANGED <<started, damaged, cv>>

\* fs::write's write_all, then line 103
AddWrite(p) ==
    /\ procs[p].pc = "add_write"
    /\ file' = Written(file, EncryptedData(procs[p]))
    /\ origin' = IF file'.data = EncryptedData(procs[p])
                 THEN Origin("add", procs[p].key, procs[p].pw2, procs[p].store, 0, FALSE)
                 ELSE Partial
    /\ procs' = [procs EXCEPT ![p] = Finished(@, "Ok")]
    /\ UNCHANGED <<started, damaged, cv>>

-----------------------------------------------------------------------------
(* The process is killed while a command runs *)

Crash(p) ==
    /\ procs[p].pc # "idle"
    /\ procs' = [procs EXCEPT ![p] = Finished(@, "Crashed")]
    /\ UNCHANGED <<file, origin, started, damaged, cv>>

Next ==
    \E p \in Procs :
        \/ InitCreate(p)
        \/ InitWrite(p)
        \/ OpenStore(p)
        \/ AddOpen(p)
        \/ AddCreate(p)
        \/ AddWrite(p)
        \/ Crash(p)

Spec == Init /\ [][Next]_vars

-----------------------------------------------------------------------------
(* The file is damaged at rest, then read by decrypt_store (line 121) *)

\* stores of at most one entry, sealed under a 32-byte master password
SealedFiles ==
    { [exists |-> TRUE,
       data |-> encrypt_store(es, RawKey(LongPwA), nonce).data] :
         es \in {<<>>} \cup { <<r>> : r \in Records }, nonce \in Nonces }

SealedOrigin(f) ==
    LET m == f.data[Len(f.data)].mac
    IN Origin("env", m.key, m.key.pw, Deserialize(m.pt).val, 0, FALSE)

TamperInit ==
    /\ file \in SealedFiles
    /\ origin = SealedOrigin(file)
    /\ procs = [p \in Procs |-> IdleProc]
    /\ started = 0
    /\ damaged = FALSE
    /\ cv = CvOff

Intact == file.exists /\ origin.by \in {"env", "init", "add"}

\* the file loses its tail: any length below the full one, zero included
EnvTruncate ==
    /\ ~damaged /\ Intact
    /\ \E n \in 0..(Len(file.data) - 1) :
         file' = [file EXCEPT !.data = SubSeq(file.data, 1, n)]
    /\ origin' = [origin EXCEPT !.by = "truncated"]
    /\ damaged' = TRUE
    /\ UNCHANGED <<procs, started, cv>>

\* one byte of the ciphertext or of the tag is altered
EnvTamper ==
    /\ ~damaged /\ Intact
    /\ \E i \in (NonceLen + 1)..Len(file.data) :
         file' = [file EXCEPT !.data[i] = Flip(@)]
    /\ origin' = [origin EXCEPT !.by = "tampered"]
    /\ damaged' = TRUE
    /\ UNCHANGED <<procs, started, cv>>

TamperNext ==
    \/ EnvTruncate
    \/ EnvTamper
    \/ \E p \in Procs : OpenStore(p)

SpecTamper == TamperInit /\ [][TamperNext]_vars

-----------------------------------------------------------------------------
(* encrypt_store followed by the body of decrypt_store, on drawn inputs *)

RECURSIVE SeqsUpTo(_, _)
SeqsUpTo(S, n) ==
    IF n = 0 THEN {<<>>}
    ELSE LET shorter == SeqsUpTo(S, n - 1)
         IN shorter \cup { Append(q, x) : q \in shorter, x \in S }

CodecKeys ==
    { RawKey(pw) : pw \in Passwords }
    \cup { Argon2Hash(pw, salt) : pw \in Passwords, salt \in Salts }

CodecInit ==
    /\ file = Absent
    /\ origin = NoOrigin
    /\ procs = [p \in Procs |-> IdleProc]
    /\ started = 0
    /\ damaged = FALSE
    /\ \E es \in SeqsUpTo(Records, MaxEntries), key \in CodecKeys, nonce \in Nonces :
         cv = [CvOff EXCEPT !.phase = "input", !.entries = es, !.key = key,
                            !.nonce = nonce]

CodecSeal ==
    /\ cv.phase = "input"
    /\ LET encrypted_data == encrypt_store(cv.entries, cv.key, cv.nonce)
       IN cv' = IF encrypted_data.ok
                THEN [cv EXCEPT !.phase = "sealed", !.blob = encrypted_data.data]
                ELSE [cv EXCEPT !.phase = "rejected"]
    /\ UNCHANGED <<file, origin, procs, started, damaged>>

CodecOpen ==
    /\ cv.phase = "sealed"
    /\ cv' = [cv EXCEPT
                !.phase = "opened",
                !.plain = AeadDecrypt(cv.key,
                                      NonceValue(SubSeq(cv.blob, 1, NonceLen)),
                                      SubSeq(cv.blob, NonceLen + 1, Len(cv.blob))),
                !.res = DecryptBytes(cv.blob, cv.key)]
    /\ UNCHANGED <<file, origin, procs, started, damaged>>

CodecNext == CodecSeal \/ CodecOpen

SpecCodec == CodecInit /\ [][CodecNext]_vars

-----------------------------------------------------------------------------
(* decrypt_store and add_entry on what the path may hold when they start *)

\* plaintexts that bincode::deserialize (line 130) rejects: no bytes at all, a
\* count of one entry with nothing after it, an entry cut one byte short
Undecodable ==
    { <<>>, U64(1) }
    \cup { SubSeq(Serialize(<<r>>), 1, Len(Serialize(<<r>>)) - 1) : r \in Records }

\* what a blob at the path may decrypt to: a store of fewer than MaxEntries
\* entries as serialized by line 111, or bytes that are no store
StoredPlaintexts ==
    { Serialize(es) : es \in SeqsUpTo(Records, MaxEntries - 1) } \cup Undecodable

\* the path names no file, an empty file, or a blob sealed under a 32-byte
\* master password
StoredStates ==
    { [file |-> Absent, origin |-> NoOrigin],
      [file |-> Created, origin |-> Partial] }
    \cup { [file |-> [exists |-> TRUE,
                      data |-> Frame(Rep(1, NonceLen),
                                     AeadEncrypt(RawKey(LongPwA), Rep(1, NonceLen), pt))],
            origin |-> Origin("env", RawKey(LongPwA), LongPwA,
                              Deserialize(pt).val, 0, FALSE)] :
            pt \in StoredPlaintexts }

StoredInit ==
    /\ \E st \in StoredStates : file = st.file /\ origin = st.origin
    /\ procs = [p \in Procs |-> IdleProc]
    /\ started = 0
    /\ damaged = FALSE
    /\ cv = CvOff

\* commands run one after another, each to its end, from one shell
StoredNext ==
    LET p == "p1"
    IN \/ OpenStore(p)
       \/ AddOpen(p)
       \/ AddCreate(p)
       \/ AddWrite(p)

SpecStored == StoredInit /\ [][StoredNext]_vars

-----------------------------------------------------------------------------
(* Properties *)

Range(q) == { q[i] : i \in 1..Len(q) }

\* decrypt_store has returned in p's present or last command
Opened(p) == procs[p].op \in {"open", "add"}

\* p's last command returned (it was not killed)
Returned(p) == procs[p].pc = "idle" /\ procs[p].op # "none" /\ procs[p].out # "Crashed"

Alone(p) == \A q \in Procs \ {p} : procs[q].op = "none"

\* data is a whole blob: nonce, ciphertext and the tag that seals them
Complete(data) ==
    /\ Len(data) >= NonceLen + TagLen
    /\ LET m == data[Len(data)].mac
       IN data = Frame(m.nonce, AeadEncrypt(m.key, m.nonce, m.pt))

SaltCells(salt) == [i \in 1..SaltLen |-> PlainCell(salt)]

\* C1: an open given the secret s finds the vault that init(p, s) wrote at an
\* absent path: it succeeds and yields the empty record sequence.
C1_InitThenOpen ==
    \A p \in Procs :
        (Opened(p) /\ procs[p].seen.by = "init" /\ procs[p].seen.fresh
                   /\ procs[p].seen.match)
        => procs[p].dres = Res("Ok", <<>>)

\* C2: on a vault initialised with s, an add of record r given s at every
\* prompt has returned: the file now opens under s to exactly the record r.
C2_AddThenReopen ==
    \A p \in Procs :
        (/\ procs[p].op = "add" /\ Returned(p) /\ Alone(p)
         /\ procs[p].seen.by = "init" /\ procs[p].seen.fresh /\ procs[p].seen.match
         /\ procs[p].pw2 \in {<<>>, procs[p].pw})
        => /\ file.exists
           /\ DecryptBytes(file.data, RawKey(procs[p].pw)) = Res("Ok", <<procs[p].rec>>)

\* C3: an init that finds the path occupied returns AlreadyExists without
\* ever starting to write.
C3_InitOnExisting ==
    \A p \in Procs :
        (procs[p].op = "init" /\ procs[p].seen.by # "none")
        => procs[p].pc = "idle" /\ procs[p].out = "AlreadyExists"

\* C4: an open given a secret other than the one the vault was sealed under
\* fails with the error a corrupted file gives (the decryption failure),
\* whatever the length of the wrong secret.
C4_WrongSecretSameError ==
    \A p \in Procs :
        (Opened(p) /\ procs[p].seen.by \in {"env", "init", "add"}
                   /\ ~procs[p].seen.match)
        => procs[p].dres = Res("DecryptFailed", <<>>)

\* C5: after an add is killed during its rewrite, the vault file is a whole
\* sealed blob (the previous one or the new one), never a torn one.
C5_CrashLeavesWholeFile ==
    \A p \in Procs :
        (procs[p].op = "add" /\ procs[p].out = "Crashed" /\ Alone(p))
        => file.exists /\ Complete(file.data)

\* C6: when two adds of different records have both returned Ok, the vault
\* holds both records.
C6_NoLostUpdate ==
    \A p, q \in Procs :
        (/\ p # q
         /\ procs[p].op = "add" /\ Returned(p) /\ procs[p].out = "Ok"
         /\ procs[q].op = "add" /\ Returned(q) /\ procs[q].out = "Ok"
         /\ procs[p].rec # procs[q].rec
         /\ origin.by = "add")
        => {procs[p].rec, procs[q].rec} \subseteq Range(origin.entries)

\* C7: a file written by init or by add is salt || nonce || ciphertext_with_tag,
\* and the salt of a file init wrote is the salt that init generated.
C7_SaltFramedLayout ==
    origin.by \in {"init", "add"}
    => /\ Len(file.data) >= SaltLen + NonceLen + TagLen
       /\ \E salt \in Salts :
            /\ origin.by = "init" => salt = origin.salt
            /\ SubSeq(file.data, 1, SaltLen) = SaltCells(salt)
       /\ Complete(SubSeq(file.data, SaltLen + 1, Len(file.data)))

\* C8: an open of a truncated vault file, of any length down to the empty
\* file, given the vault's own master password, returns the decryption
\* failure: it does not abort and returns no records.
C8_TruncatedFailsClosed ==
    \A p \in Procs :
        (Opened(p) /\ procs[p].seen.by = "truncated" /\ procs[p].seen.match)
        => procs[p].dres = Res("DecryptFailed", <<>>)

\* C9: an open of a sealed blob with one position of its ciphertext or tag
\* altered never returns records, and given the right key it fails with the
\* decryption failure.
C9_TamperDetected ==
    \A p \in Procs :
        (Opened(p) /\ procs[p].seen.by = "tampered")
        => /\ procs[p].dres.kind # "Ok"
           /\ procs[p].dres.entries = <<>>
           /\ procs[p].seen.match => procs[p].dres.kind = "DecryptFailed"

\* an open given the right 32-byte password has read a tampered blob
C9_Witness ==
    \E p \in Procs :
        /\ Opened(p) /\ procs[p].seen.by = "tampered" /\ procs[p].seen.match
        /\ procs[p].dres.kind = "DecryptFailed"

\* C10: opening with key k the blob that sealing encode(v) under k produced
\* returns exactly encode(v), which decodes to v: same records, same order.
C10_RoundTrip ==
    cv.phase = "opened"
    => /\ cv.plain = [ok |-> TRUE, pt |-> Serialize(cv.entries)]
       /\ cv.res = Res("Ok", cv.entries)

\* a store of two different records has gone through seal and open
C10_Witness ==
    /\ cv.phase = "opened"
    /\ Len(cv.entries) = 2 /\ cv.entries[1] # cv.entries[2]
    /\ cv.res.kind = "Ok"

\* C11: the blob that a successful add wrote over the store the environment
\* held, sealed under the same key as that store, carries a nonce different
\* from that store's nonce.
C11_NoNonceRepeat ==
    \A p \in Procs :
        (/\ procs[p].op = "add" /\ Returned(p) /\ procs[p].out = "Ok" /\ Alone(p)
         /\ origin.by = "add" /\ origin.key = EnvOrigin.key)
        => SubSeq(file.data, 1, NonceLen) # SubSeq(EnvFile.data, 1, NonceLen)

\* C11 as amended: every write that lands whole (by init or by add) carries in
\* its first 12 bytes the nonce the generator returned to that command's own
\* encrypt_store call.
C11_NonceIsDrawn ==
    [][\A p \in Procs :
          (/\ procs[p].pc \in {"init_write", "add_write"}
           /\ procs'[p].pc = "idle" /\ procs'[p].out = "Ok"
           /\ origin'.by \in {"init", "add"})
          => /\ procs[p].nonce \in Nonces
             /\ SubSeq(file'.data, 1, NonceLen) = NonceCells(procs[p].nonce)]_vars

\* an add has replaced the store the environment held, under the same key,
\* with a blob whose nonce is another draw of the generator
C11_Witness ==
    /\ origin.by = "add" /\ origin.key = EnvOrigin.key
    /\ Len(file.data) >= NonceLen
    /\ SubSeq(file.data, 1, NonceLen) # SubSeq(EnvFile.data, 1, NonceLen)
    /\ NonceValue(SubSeq(file.data, 1, NonceLen)) \in Nonces

\* no command is in progress
Quiescent == \A p \in Procs : procs[p].pc = "idle"

\* no command was killed
CrashFree == \A p \in Procs : procs[p].out # "Crashed"

\* f is a whole blob that decrypt_store opens when given the master password
\* of the write o that produced it
Sealed(f, o) ==
    /\ f.exists /\ Complete(f.data)
    /\ o.by \in {"env", "init", "add"}
    /\ DecryptBytes(f.data, RawKey(o.pw)).kind = "Ok"

\* C12: with no command killed, whenever no command is in progress the vault
\* file is Absent or Sealed (a whole blob that opens under the master password
\* it was last sealed with); only a step of init takes the file out of Absent,
\* and no step takes an existing file back to Absent.
C12_AbsentOrSealed ==
    [][/\ (CrashFree' /\ Quiescent') => (file' = Absent \/ Sealed(file', origin'))
       /\ (file = Absent /\ file' # Absent)
          => \E p \in Procs : procs[p].pc = "idle" /\ procs'[p].op = "init"
       /\ file # Absent => file' # Absent]_vars

\* the key under which the tag at the end of a blob was computed
TagKey(data) == data[Len(data)].mac.key

\* C13: init, open and add all key the cipher with the output of the key
\* derivation on the master password, never with the password's own bytes:
\* the key a command is about to seal under is the derived key of the password
\* it was given, and a blob that an open has just authenticated is sealed
\* under a derived key.
C13_OneKeyContract ==
    \A p \in Procs :
        /\ procs[p].pc = "init_write"
           => procs[p].key = Argon2Hash(procs[p].pw, procs[p].key.salt)
        /\ procs[p].pc = "add_write"
           => procs[p].key = Argon2Hash(procs[p].pw2, procs[p].key.salt)
        /\ (Opened(p) /\ procs[p].dres.kind = "Ok" /\ Alone(p) /\ Intact
            /\ procs[p].pc \in {"idle", "add_opened"})
           => TagKey(file.data).kind = "argon2"

\* C14: when an add of record r has returned Ok with no other command run
\* beside it, the file holds exactly the entries that its decrypt_store
\* returned followed by r, entries of the same name as r included, and
\* opens to them under the password of the re-seal.
C14_AppendKeepsAll ==
    \A p \in Procs :
        (procs[p].op = "add" /\ Returned(p) /\ procs[p].out = "Ok" /\ Alone(p))
        => LET c == procs[p].dres.entries
               r == procs[p].rec
           IN /\ origin.by = "add"
              /\ origin.entries = c \o <<r>>
              /\ DecryptBytes(file.data, RawKey(procs[p].pw2)) = Res("Ok", c \o <<r>>)

\* an add has put r after an entry of the same name and other fields
C14_Witness ==
    \E p \in Procs :
        /\ procs[p].op = "add" /\ Returned(p) /\ procs[p].out = "Ok" /\ Alone(p)
        /\ Len(procs[p].dres.entries) >= 1
        /\ procs[p].dres.entries[1].name = procs[p].rec.name
        /\ procs[p].dres.entries[1] # procs[p].rec
        /\ origin.entries = procs[p].dres.entries \o <<procs[p].rec>>

\* cipher.decrypt (lines 126-128) accepts the blob under the typed password:
\* there is a nonce, the password makes a key, and the tag verifies
Authenticates(data, pw) ==
    /\ Len(data) >= NonceLen
    /\ KeyBytesLen(RawKey(pw)) = KeyLen
    /\ AeadDecrypt(RawKey(pw), NonceValue(SubSeq(data, 1, NonceLen)),
                   SubSeq(data, NonceLen + 1, Len(data))).ok

\* the file is still the one p's decrypt_store read
FileAsOpened(p) ==
    /\ Opened(p)
    /\ procs[p].op = "open" \/ procs[p].pc = "add_opened" \/ procs[p].dres.kind # "Ok"

C16_FailedAddWritesNothing ==
    [][\A p \in Procs :
          (/\ procs'[p] # procs[p]
           /\ procs'[p].op = "add"
           /\ procs'[p].dres.kind \notin {"Ok", "none"})
          => /\ file' = file
             /\ procs'[p].pc = "idle"
             /\ procs'[p].out = procs'[p].dres.kind]_vars

\* an add has failed on undecodable records and the file is the blob it read
C16_Witness ==
    \E p \in Procs :
        /\ procs[p].op = "add" /\ procs[p].pc = "idle"
        /\ procs[p].out = "Malformed"
        /\ origin.by = "env" /\ Authenticates(file.data, procs[p].pw)

\* C17: when an add has returned Ok with no other command run beside it, the
\* file it wrote is sealed under the key its decrypt_store opened the store
\* with, and opens under the master password given at the first prompt,
\* whatever was typed at the second.
C17_ResealUnderOpeningKey ==
    \A p \in Procs :
        (procs[p].op = "add" /\ Returned(p) /\ procs[p].out = "Ok" /\ Alone(p))
        => /\ origin.key = RawKey(procs[p].pw)
           /\ DecryptBytes(file.data, RawKey(procs[p].pw)).kind = "Ok"

====
